---- MODULE Spec2Model ----
(***************************************************************************)
(* Model of FinanzasPro.jsx: the financial metrics engine                  *)
(* (calculateMetrics), the aggregations of TransactionPieChart and         *)
(* IncomeExpenseBarChart, the series of ProjectionLineChart, the           *)
(* add-transaction modal, and the App component: the transaction flow of   *)
(* a signed-in user (add, soft delete, realtime snapshot) and the          *)
(* authentication state with its realtime listeners.                       *)
(*                                                                         *)
(* Specifications:                                                         *)
(*   SpecFn    DashboardPanel rendered on arbitrary inputs                 *)
(*   SpecProj  ProjectionLineChart rendered on arbitrary props             *)
(*   SpecForm  AddTransactionModal: open, edit, cancel, submit             *)
(*   Spec      App of one signed-in user: add, delete, snapshot            *)
(*   SpecAuth  App from its mount: auth changes, listeners, snapshots      *)
(*   SpecHealth  HealthPanel of a signed-in user: edit, cancel, save      *)
(*                                                                         *)
(* Numbers: JavaScript doubles are modelled by exact arithmetic. Amounts   *)
(* are integers, quotients are kept as fractions [num, den], toFixed(1)    *)
(* yields a count of tenths, and the compound growth factor is an exact    *)
(* decimal held as base-10000 limbs. IEEE-754 rounding error is not        *)
(* modelled.                                                               *)
(* Strings that the code takes apart (split, replace, parseInt,            *)
(* parseFloat) are sequences of one-character strings.                     *)
(***************************************************************************)
EXTENDS Integers, Sequences, FiniteSets, TLC

VARIABLES
    tzWest,         \* host time zone is west of UTC (local time behind UTC)
    now,            \* local calendar month read from the clock by the last
                    \* calculateMetrics call: [y, m], m in 1..12
    transactions,   \* App state: list handed to the panels
    healthData,     \* App state
    portfolioData,  \* App state
    metrics,        \* result of the last calculateMetrics call, or NotRendered
    barData,        \* data of the last IncomeExpenseBarChart, or NotRendered
    store,          \* backend collection users/<uid>/transactions: id -> doc
    synced,         \* the listener has delivered the latest state of store
    deletedOk,      \* ids whose confirmed deletion the backend acknowledged
    pieData,        \* data of the last TransactionPieChart, or NotRendered
    capital,        \* prop capital of ProjectionLineChart, a decimal
    annualReturn,   \* prop annualReturn of ProjectionLineChart, in percent
    projData,       \* data of the last ProjectionLineChart, or NotRendered
    showTransactionModal,   \* App state: AddTransactionModal is mounted
    formType,       \* AddTransactionModal state type
    formAmount,     \* AddTransactionModal state amount: the input's value
    formCategory,   \* AddTransactionModal state category
    formDate,       \* AddTransactionModal state date, NoDate for ''
    consoleError,   \* handleSubmit has logged a failed write (console.error)
    userId,         \* App state: uid of the signed-in user, or NoUser (null)
    isAuthReady,    \* App state
    loading,        \* App state
    effectDeps,     \* [isAuthReady, userId] at the last run of the data effect
    listeners,      \* uid the three onSnapshot listeners are attached to, or
                    \* NoUser when there are none
    pending,        \* per listener (T, H, P): a snapshot is to be delivered
    cloud,          \* backend: per uid the documents under users/<uid>
    isEditing,      \* HealthPanel state
    localHealthData,        \* HealthPanel state
    healthEffectPending     \* healthData changed in the last render and the
                            \* HealthPanel effect on it has not run yet

\* state of the dashboard and of the transactions flow
dashVars == <<tzWest, now, transactions, healthData, portfolioData, metrics,
              barData, store, synced, deletedOk, pieData>>

\* props and output of the projection chart
projVars == <<capital, annualReturn, projData>>

\* the add-transaction modal
formVars == <<showTransactionModal, formType, formAmount, formCategory,
              formDate, consoleError>>

\* authentication and the realtime listeners
authVars == <<userId, isAuthReady, loading, effectDeps, listeners, pending,
              cloud>>

\* the health panel of the dashboard
healthVars == <<isEditing, localHealthData, healthEffectPending>>

vars == <<dashVars, projVars, formVars, authVars, healthVars>>

----------------------------------------------------------------------------
(* Bounds *)

MaxTx == 2

MaxDocs == 2

\* transactions written in one session of the add-transaction modal
MaxWrites == 1

----------------------------------------------------------------------------
(* Generic helpers *)

Min(a, b) == IF a < b THEN a ELSE b

Max(a, b) == IF a > b THEN a ELSE b

RECURSIVE SumSeq(_)
SumSeq(s) == IF s = <<>> THEN 0 ELSE Head(s) + SumSeq(Tail(s))

SeqsUpTo(S, n) == UNION {[1..k -> S] : k \in 0..n}

Range(s) == {s[i] : i \in DOMAIN s}

----------------------------------------------------------------------------
(* Strings as sequences of characters *)

Digits == <<"0", "1", "2", "3", "4", "5", "6", "7", "8", "9">>

IsDigit(c) == \E i \in 1..10 : Digits[i] = c

DigitVal(c) == (CHOOSE i \in 1..10 : Digits[i] = c) - 1

RECURSIVE IntToStr(_)
\* template literal `${n}` for a non-negative integer
IntToStr(n) ==
    IF n < 10 THEN <<Digits[n + 1]>>
    ELSE IntToStr(n \div 10) \o <<Digits[(n % 10) + 1]>>

RECURSIVE SplitAcc(_, _, _)
SplitAcc(s, sep, cur) ==
    IF s = <<>> THEN <<cur>>
    ELSE IF Head(s) = sep THEN <<cur>> \o SplitAcc(Tail(s), sep, <<>>)
    ELSE SplitAcc(Tail(s), sep, Append(cur, Head(s)))

\* String.prototype.split with a one-character separator
Split(s, sep) == SplitAcc(s, sep, <<>>)

RECURSIVE ReplaceFirst(_, _)
\* String.prototype.replace(c, ''): removes the first occurrence only
ReplaceFirst(s, c) ==
    IF s = <<>> THEN <<>>
    ELSE IF Head(s) = c THEN Tail(s)
    ELSE <<Head(s)>> \o ReplaceFirst(Tail(s), c)

\* s.replace(/[^0-9]/g, '')
StripNonDigits(s) == SelectSeq(s, IsDigit)

RECURSIVE DigitsToInt(_, _)
DigitsToInt(s, acc) ==
    IF s = <<>> \/ ~IsDigit(Head(s)) THEN acc
    ELSE DigitsToInt(Tail(s), acc * 10 + DigitVal(Head(s)))

RECURSIVE SkipSpaces(_)
SkipSpaces(s) ==
    IF s # <<>> /\ Head(s) = " " THEN SkipSpaces(Tail(s)) ELSE s

\* parseInt / parseFloat on the strings of this program (no sign, no
\* decimal point): leading blanks are skipped, the leading run of digits
\* is the value, and a string that does not start with a digit is NaN.
ParseNumber(s) ==
    LET t == SkipSpaces(s) IN
    IF t = <<>> \/ ~IsDigit(Head(t)) THEN [nan |-> TRUE, val |-> 0]
    ELSE [nan |-> FALSE, val |-> DigitsToInt(t, 0)]

\* x || 0 for a number x: NaN and 0 are falsy
OrZero(x) == IF x.nan THEN 0 ELSE x.val

\* parseFloat on the values of the amount input (a sign and digits, no
\* decimal point): a leading "-" negates the number that follows
ParseFloat(s) ==
    LET t == SkipSpaces(s) IN
    IF t # <<>> /\ Head(t) = "-"
    THEN IF Tail(t) = <<>> \/ ~IsDigit(Head(Tail(t)))
         THEN [nan |-> TRUE, val |-> 0]
         ELSE [nan |-> FALSE, val |-> -DigitsToInt(Tail(t), 0)]
    ELSE IF t = <<>> \/ ~IsDigit(Head(t)) THEN [nan |-> TRUE, val |-> 0]
    ELSE [nan |-> FALSE, val |-> DigitsToInt(t, 0)]

----------------------------------------------------------------------------
(* Calendar dates and the Date object *)

IsLeap(y) == (y % 4 = 0 /\ y % 100 # 0) \/ y % 400 = 0

DaysInMonth(y, m) ==
    IF m = 2 THEN (IF IsLeap(y) THEN 29 ELSE 28)
    ELSE IF m \in {4, 6, 9, 11} THEN 30 ELSE 31

PrevDay(d) ==
    IF d.d > 1 THEN [y |-> d.y, m |-> d.m, d |-> d.d - 1]
    ELSE IF d.m > 1 THEN [y |-> d.y, m |-> d.m - 1, d |-> DaysInMonth(d.y, d.m - 1)]
    ELSE [y |-> d.y - 1, m |-> 12, d |-> 31]

\* new Date("YYYY-MM-DD"): a date-only string is midnight UTC; the getters
\* getFullYear/getMonth/getDate read it in local time, which west of UTC
\* is still the previous day.
NewDate(date, west) == IF west THEN PrevDay(date) ELSE date

getFullYear(d) == d.y

\* months are 0-based
getMonth(d) == d.m - 1

\* date.toLocaleString('es-US', { month: 'short' })
MonthShort ==
    << <<"e","n","e">>, <<"f","e","b">>, <<"m","a","r">>, <<"a","b","r">>,
       <<"m","a","y">>, <<"j","u","n">>, <<"j","u","l">>, <<"a","g","o">>,
       <<"s","e","p","t">>, <<"o","c","t">>, <<"n","o","v">>, <<"d","i","c">> >>

\* ISO dates compare as strings the way the calendar orders them
DateLess(a, b) ==
    \/ a.y < b.y
    \/ a.y = b.y /\ a.m < b.m
    \/ a.y = b.y /\ a.m = b.m /\ a.d < b.d

----------------------------------------------------------------------------
(* Exact decimals: little-endian limbs in base 10000, no leading zero limb *)

LimbBase == 10^4

RECURSIVE BigNorm(_)
BigNorm(a) ==
    IF a # <<>> /\ a[Len(a)] = 0 THEN BigNorm(SubSeq(a, 1, Len(a) - 1)) ELSE a

RECURSIVE BigFromInt(_)
BigFromInt(n) ==
    IF n = 0 THEN <<>> ELSE <<n % LimbBase>> \o BigFromInt(n \div LimbBase)

RECURSIVE BigMulCarry(_, _, _)
BigMulCarry(a, k, carry) ==
    IF a = <<>> THEN BigFromInt(carry)
    ELSE LET p == Head(a) * k + carry IN
         <<p % LimbBase>> \o BigMulCarry(Tail(a), k, p \div LimbBase)

\* a * k for a small non-negative integer k
BigMulSmall(a, k) == BigNorm(BigMulCarry(a, k, 0))

RECURSIVE BigPow(_, _)
\* k^n
BigPow(k, n) == IF n = 0 THEN <<1>> ELSE BigMulSmall(BigPow(k, n - 1), k)

RECURSIVE BigToInt(_)
BigToInt(a) == IF a = <<>> THEN 0 ELSE Head(a) + LimbBase * BigToInt(Tail(a))

\* a number as the exact decimal (neg ? -1 : 1) * mant / 10^frac
DecOfInt(n) ==
    [neg |-> n < 0, mant |-> BigFromInt(IF n < 0 THEN -n ELSE n), frac |-> 0]

\* n tenths
DecOfTenths(n) ==
    [neg |-> n < 0, mant |-> BigFromInt(IF n < 0 THEN -n ELSE n), frac |-> 1]

\* Mutant of MathRound: the fraction is cut off (Math.trunc)
MathTrunc(x) ==
    LET pad == (4 - (x.frac % 4)) % 4
        m == BigMulSmall(x.mant, 10^pad)
        k == (x.frac + pad) \div 4
        q == IF Len(m) > k THEN BigToInt(SubSeq(m, k + 1, Len(m))) ELSE 0
    IN IF x.neg THEN -q ELSE q

\* Math.round(x): the nearest integer, the larger one on a tie. The
\* fraction is the lowest k limbs of the mantissa scaled to a whole number
\* of limbs.
MathRound(x) ==
    LET pad == (4 - (x.frac % 4)) % 4
        m == BigMulSmall(x.mant, 10^pad)
        k == (x.frac + pad) \div 4
        q == IF Len(m) > k THEN BigToInt(SubSeq(m, k + 1, Len(m))) ELSE 0
        top == IF k >= 1 /\ Len(m) >= k THEN m[k] ELSE 0
        below == \E i \in 1..Min(k - 1, Len(m)) : m[i] # 0
        half == LimbBase \div 2
        overHalf == top > half \/ (top = half /\ below)
        tie == top = half /\ ~below
    IN IF x.neg
       THEN -(q + (IF overHalf THEN 1 ELSE 0))
       ELSE q + (IF overHalf \/ tie THEN 1 ELSE 0)

----------------------------------------------------------------------------
(* Constants of the program *)

CATEGORIES ==
    [Egreso  |-> <<"Vivienda", "Transporte", "Alimentos", "Entretenimiento",
                   "Deudas", "Educacion", "Salud", "Ahorro", "Inversion",
                   "Otros">>,
     Ingreso |-> <<"Salario", "Freelance", "Inversiones", "Regalo",
                   "Otros Ingresos">>]

RISK_PROFILES ==
    [Conservador |-> [allocation |-> <<70, 30>>,
                      rendimiento_esperado |-> <<"5","%"," ","-"," ","8","%">>],
     Moderado    |-> [allocation |-> <<50, 50>>,
                      rendimiento_esperado |-> <<"8","%"," ","-"," ","1","2","%">>],
     Agresivo    |-> [allocation |-> <<30, 70>>,
                      rendimiento_esperado |-> <<"1","2","%"," ","-"," ","1","8","%">>]]

\* exponent of Math.pow in calculateMetrics
HorizonYears == 10

\* slice(-6) of IncomeExpenseBarChart
BarMonths == 6

\* Math.pow(1 + p/100, HorizonYears) * 100^HorizonYears for the whole
\* percentages p up to 20, computed once
PowTable == [p \in 0..20 |-> BigPow(100 + p, HorizonYears)]

\* Math.pow(1 + pct/100, HorizonYears) as the integer (100 + pct)^HorizonYears
GrowthFactor(pct) ==
    IF pct \in DOMAIN PowTable THEN PowTable[pct]
    ELSE BigPow(100 + pct, HorizonYears)

----------------------------------------------------------------------------
(* Objects that may be null or lack fields *)

Absent == [absent |-> TRUE]

Undefined == [def |-> FALSE, val |-> 0, threw |-> FALSE]

\* Mutant of OptGet: plain member access, a TypeError on null
StrictGet(o, f) ==
    IF "absent" \in DOMAIN o THEN [def |-> FALSE, val |-> 0, threw |-> TRUE]
    ELSE IF f \in DOMAIN o THEN [def |-> TRUE, val |-> o[f], threw |-> FALSE]
    ELSE Undefined

\* o?.f for a numeric field
OptGet(o, f) ==
    IF "absent" \in DOMAIN o \/ f \notin DOMAIN o THEN Undefined
    ELSE [def |-> TRUE, val |-> o[f], threw |-> FALSE]

\* truthiness of a number or undefined
Truthy(x) == x.def /\ x.val # 0

\* x || 0
ValOrZero(x) == IF Truthy(x) THEN x.val ELSE 0

\* portfolioData?.riskProfile is truthy
HasRiskProfile(p) ==
    /\ "absent" \notin DOMAIN p
    /\ "riskProfile" \in DOMAIN p
    /\ p.riskProfile # ""

----------------------------------------------------------------------------
(* Number formatting *)

Zero == [num |-> 0, den |-> 1]

\* Mutant of MaxZero: the value is not clamped
NoClamp(x) == x

\* Math.max(0, x) for a fraction with positive denominator
MaxZero(x) == IF x.num < 0 THEN Zero ELSE x

\* x.toFixed(1) for x = num/den >= 0: the nearest multiple of 0.1, the
\* larger one on a tie, given as a count of tenths; 0/0 prints "NaN"
ToFixed1(x) ==
    IF x.den = 0 THEN [nan |-> TRUE, tenths |-> 0]
    ELSE [nan |-> FALSE, tenths |-> (x.num * 20 + x.den) \div (2 * x.den)]

----------------------------------------------------------------------------
(* calculateMetrics *)

\* the filter predicate of currentMonthData
InCurrentMonth(t, nowYM, west) ==
    LET date == NewDate(t.date, west) IN
    /\ getMonth(date) = nowYM.m - 1
    /\ getFullYear(date) = nowYM.y

\* .filter(t => t.type === type).reduce((sum, t) => sum + t.amount, 0)
TotalOf(txs, type) ==
    LET OfType(t) == t.type = type
        F[i \in 0..Len(txs)] ==
            IF i = 0 THEN 0
            ELSE F[i - 1] + (IF OfType(txs[i]) THEN txs[i].amount ELSE 0)
    IN F[Len(txs)]

SavingsRatio(totalIncome, netMonthlyFlow) ==
    IF totalIncome > 0
    THEN [num |-> netMonthlyFlow * 100, den |-> totalIncome]
    ELSE Zero

\* Mutant of DebtToIncomeRatio: the monthly income is not annualised
DebtToIncomeRatioMonthly(totalDebt, totalIncome) ==
    IF Truthy(totalDebt) /\ totalIncome > 0
    THEN [num |-> totalDebt.val * 100, den |-> totalIncome]
    ELSE Zero

\* totalDebt is the value of healthData?.totalDebt
DebtToIncomeRatio(totalDebt, totalIncome) ==
    IF Truthy(totalDebt) /\ totalIncome > 0
    THEN [num |-> totalDebt.val * 100, den |-> totalIncome * 12]
    ELSE Zero

\* `${new Date(t.date).getFullYear()}-${new Date(t.date).getMonth()}`
MonthKeyOf(t, west) ==
    LET date == NewDate(t.date, west) IN
    IntToStr(getFullYear(date)) \o <<"-">> \o IntToStr(getMonth(date))

AverageMonthlyExpense(txs, west) ==
    IF Len(txs) > 0
    THEN LET size == Cardinality({MonthKeyOf(txs[i], west) : i \in DOMAIN txs})
         IN [num |-> TotalOf(txs, "Egreso"),
             den |-> IF size # 0 THEN size ELSE 1]
    ELSE Zero

\* Mutant of EmergencyFundMonths: divides by the total expense of the
\* history instead of the monthly average
EmergencyFundMonthsTotal(emergencyFund, avg) ==
    IF avg.num > 0
    THEN [num |-> ValOrZero(emergencyFund), den |-> avg.num]
    ELSE Zero

\* emergencyFund is the value of healthData?.emergencyFund
EmergencyFundMonths(emergencyFund, avg) ==
    IF avg.num > 0
    THEN [num |-> ValOrZero(emergencyFund) * avg.den, den |-> avg.num]
    ELSE Zero

\* Mutant of ExpectedReturnLow: takes the upper end of the range
ExpectedReturnHigh(s) == ParseNumber(ReplaceFirst(Split(s, "-")[2], "%"))

\* parseFloat(s.split('-')[0].replace('%', ''))
ExpectedReturnLow(s) == ParseNumber(ReplaceFirst(Split(s, "-")[1], "%"))

\* portfolioReturn in percent (the code divides by 100; FutureValue keeps
\* the two decimal places in frac); threw when RISK_PROFILES has no entry
PortfolioReturn(portfolio) ==
    IF HasRiskProfile(portfolio)
    THEN IF portfolio.riskProfile \in DOMAIN RISK_PROFILES
         THEN LET r == ExpectedReturnLow(
                          RISK_PROFILES[portfolio.riskProfile].rendimiento_esperado)
              IN [threw |-> FALSE, nan |-> r.nan, pct |-> r.val]
         ELSE [threw |-> TRUE, nan |-> FALSE, pct |-> 0]
    ELSE [threw |-> FALSE, nan |-> FALSE, pct |-> 5]

\* (healthData?.investmentCapital || 0) * Math.pow(1 + portfolioReturn, 10)
\* as the exact decimal mant / 10^frac
FutureValue(investmentCapital, ret) ==
    IF ret.nan THEN [nan |-> TRUE, mant |-> <<>>, frac |-> 0]
    ELSE [nan  |-> FALSE,
          mant |-> BigMulSmall(GrowthFactor(ret.pct),
                               ValOrZero(investmentCapital)),
          frac |-> 2 * HorizonYears]

NotRendered == [rendered |-> FALSE]

calculateMetrics(txs, health, portfolio, nowYM, west) ==
    LET Cur(t) == InCurrentMonth(t, nowYM, west)
        currentMonthData == SelectSeq(txs, Cur)
        totalIncome == TotalOf(currentMonthData, "Ingreso")
        totalExpense == TotalOf(currentMonthData, "Egreso")
        netMonthlyFlow == totalIncome - totalExpense
        savingsRatio == SavingsRatio(totalIncome, netMonthlyFlow)
        totalDebt == OptGet(health, "totalDebt")
        debtToIncomeRatio == DebtToIncomeRatio(totalDebt, totalIncome)
        averageMonthlyExpense == AverageMonthlyExpense(txs, west)
        emergencyFund == OptGet(health, "emergencyFund")
        emergencyFundMonths == EmergencyFundMonths(emergencyFund, averageMonthlyExpense)
        portfolioReturn == PortfolioReturn(portfolio)
        investmentCapital == OptGet(health, "investmentCapital")
    IN  IF \/ totalDebt.threw \/ emergencyFund.threw
           \/ investmentCapital.threw \/ portfolioReturn.threw
        THEN [rendered |-> TRUE, threw |-> TRUE]
        ELSE [rendered |-> TRUE, threw |-> FALSE,
              totalIncome |-> totalIncome,
              totalExpense |-> totalExpense,
              netMonthlyFlow |-> netMonthlyFlow,
              savingsRatio |-> ToFixed1(MaxZero(savingsRatio)),
              debtToIncomeRatio |-> ToFixed1(debtToIncomeRatio),
              emergencyFundMonths |-> ToFixed1(emergencyFundMonths),
              futureValue |-> FutureValue(investmentCapital, portfolioReturn),
              averageMonthlyExpense |-> averageMonthlyExpense]

----------------------------------------------------------------------------
(* IncomeExpenseBarChart *)

\* `${date.getFullYear()}-${date.getMonth() + 1}`
BarMonthKey(t, west) ==
    LET date == NewDate(t.date, west) IN
    IntToStr(getFullYear(date)) \o <<"-">> \o IntToStr(getMonth(date) + 1)

\* `${date.toLocaleString('es-US', { month: 'short' })} ${date.getFullYear()}`
BarName(t, west) ==
    LET date == NewDate(t.date, west) IN
    MonthShort[getMonth(date) + 1] \o <<" ">> \o IntToStr(getFullYear(date))

\* one step of the reduce: acc is the object as the list of its entries in
\* insertion order (the keys are not array indices)
BarStep(acc, t, west) ==
    LET key == BarMonthKey(t, west)
        acc1 == IF \E i \in DOMAIN acc : acc[i].key = key THEN acc
                ELSE Append(acc, [key |-> key, name |-> BarName(t, west),
                                  Ingreso |-> 0, Egreso |-> 0])
    IN [i \in DOMAIN acc1 |->
          IF acc1[i].key = key
          THEN [acc1[i] EXCEPT ![t.type] = @ + t.amount]
          ELSE acc1[i]]

RECURSIVE BarReduce(_, _, _)
BarReduce(acc, txs, west) ==
    IF txs = <<>> THEN acc
    ELSE BarReduce(BarStep(acc, Head(txs), west), Tail(txs), west)

\* a.name.split(' ').map(s => parseInt(s.replace(/[^0-9]/g, '')) || 0)
BarNameParts(name) ==
    LET parts == Split(name, " ") IN
    [i \in DOMAIN parts |-> OrZero(ParseNumber(StripNonDigits(parts[i])))]

\* the comparator of the sort; [aYear, aMonth] are the first two parts
BarCompare(a, b) ==
    LET pa == BarNameParts(a.name)
        pb == BarNameParts(b.name)
    IN IF pa[1] # pb[1] THEN pa[1] - pb[1] ELSE pa[2] - pb[2]

\* Array.prototype.sort is stable: insert x after every element that does
\* not compare greater than x
BarInsert(sorted, x) ==
    LET k == Cardinality({i \in DOMAIN sorted : BarCompare(sorted[i], x) <= 0})
    IN SubSeq(sorted, 1, k) \o <<x>> \o SubSeq(sorted, k + 1, Len(sorted))

RECURSIVE BarSortAcc(_, _)
BarSortAcc(sorted, rest) ==
    IF rest = <<>> THEN sorted
    ELSE BarSortAcc(BarInsert(sorted, Head(rest)), Tail(rest))

\* .sort((a, b) => ...) of the bar chart
BarSort(s) == BarSortAcc(<<>>, s)

\* .slice(-n)
SliceLast(s, n) == SubSeq(s, Max(1, Len(s) - n + 1), Len(s))

IncomeExpenseBarChart(txs, west) ==
    LET monthlyData == BarReduce(<<>>, txs, west)
        values == [i \in DOMAIN monthlyData |->
                     [name |-> monthlyData[i].name,
                      Ingreso |-> monthlyData[i].Ingreso,
                      Egreso |-> monthlyData[i].Egreso]]
    IN SliceLast(BarSort(values), BarMonths)

----------------------------------------------------------------------------
(* TransactionPieChart *)

\* Mutant of PieFilter: every transaction is kept, whatever its type
PieFilterAll(txs) == txs

\* transactions.filter(t => t.type === 'Egreso')
PieFilter(txs) ==
    LET IsExpense(t) == t.type = "Egreso" IN SelectSeq(txs, IsExpense)

\* one step of the reduce: acc is the object as the list of its entries in
\* insertion order; acc[item.category] = (acc[item.category] || 0) + amount
PieStep(acc, item) ==
    IF \E i \in DOMAIN acc : acc[i].name = item.category
    THEN [i \in DOMAIN acc |->
            IF acc[i].name = item.category
            THEN [acc[i] EXCEPT !.value = @ + item.amount]
            ELSE acc[i]]
    ELSE Append(acc, [name |-> item.category, value |-> item.amount])

RECURSIVE PieReduce(_, _)
PieReduce(acc, txs) ==
    IF txs = <<>> THEN acc ELSE PieReduce(PieStep(acc, Head(txs)), Tail(txs))

\* Mutant of PieCompare: ascending by value
PieCompareAscending(a, b) == a.value - b.value

\* the comparator of the sort: (a, b) => b.value - a.value
PieCompare(a, b) == b.value - a.value

\* stable sort by insertion, as BarInsert
PieInsert(sorted, x) ==
    LET k == Cardinality({i \in DOMAIN sorted : PieCompare(sorted[i], x) <= 0})
    IN SubSeq(sorted, 1, k) \o <<x>> \o SubSeq(sorted, k + 1, Len(sorted))

RECURSIVE PieSortAcc(_, _)
PieSortAcc(sorted, rest) ==
    IF rest = <<>> THEN sorted
    ELSE PieSortAcc(PieInsert(sorted, Head(rest)), Tail(rest))

\* Object.keys(groupedData).map(...).sort(...)
TransactionPieChart(txs) == PieSortAcc(<<>>, PieReduce(<<>>, PieFilter(txs)))

----------------------------------------------------------------------------
(* ProjectionLineChart *)

\* const years = 10
years == 10

\* Mutant of ProjLoop: the bound is exclusive (i < years)
ProjLoopExclusive(n) == 0..(n - 1)

\* the values of i in for (let i = 0; i <= years; i++)
ProjLoop(n) == 0..n

\* x * (1 + annualReturn / 100) for a whole percentage
DecGrow(x, pct) ==
    LET f == 100 + pct IN
    [neg  |-> (x.neg /\ f > 0) \/ (~x.neg /\ f < 0),
     mant |-> BigMulSmall(x.mant, IF f < 0 THEN -f ELSE f),
     frac |-> x.frac + 2]

\* Mutant of ProjNext: the rounded value that was emitted is compounded
ProjNextRounded(currentCapital, pct) ==
    DecGrow(DecOfInt(MathRound(currentCapital)), pct)

\* currentCapital *= (1 + rate)
ProjNext(currentCapital, pct) == DecGrow(currentCapital, pct)

\* `Año ${i}`
YearLabel(i) == <<"A", "ñ", "o", " ">> \o IntToStr(i)

\* the array data after the loop
ProjectionLineChart(cap, pct) ==
    LET loop == ProjLoop(years)
        currentCapital[i \in loop] ==
            IF i = 0 THEN cap ELSE ProjNext(currentCapital[i - 1], pct)
    IN [j \in 1..Cardinality(loop) |->
          [year |-> YearLabel(j - 1),
           value |-> MathRound(currentCapital[j - 1])]]

----------------------------------------------------------------------------
(* DashboardPanel: the props of the projection chart *)

\* Mutant of DashAnnualReturn: the chart takes the upper end of the range
DashAnnualReturnHigh(portfolio) ==
    IF HasRiskProfile(portfolio)
    THEN IF portfolio.riskProfile \in DOMAIN RISK_PROFILES
         THEN LET r == ExpectedReturnHigh(
                          RISK_PROFILES[portfolio.riskProfile].rendimiento_esperado)
              IN [threw |-> FALSE, nan |-> r.nan, pct |-> r.val]
         ELSE [threw |-> TRUE, nan |-> FALSE, pct |-> 0]
    ELSE [threw |-> FALSE, nan |-> FALSE, pct |-> 5]

\* annualReturn of DashboardPanel
DashAnnualReturn(portfolio) ==
    IF HasRiskProfile(portfolio)
    THEN IF portfolio.riskProfile \in DOMAIN RISK_PROFILES
         THEN LET r == ExpectedReturnLow(
                          RISK_PROFILES[portfolio.riskProfile].rendimiento_esperado)
              IN [threw |-> FALSE, nan |-> r.nan, pct |-> r.val]
         ELSE [threw |-> TRUE, nan |-> FALSE, pct |-> 0]
    ELSE [threw |-> FALSE, nan |-> FALSE, pct |-> 5]

\* investmentCapital of DashboardPanel: healthData?.investmentCapital || 0
DashInvestmentCapital(health) == ValOrZero(OptGet(health, "investmentCapital"))

\* {investmentCapital > 0 && <ProjectionLineChart .../>}
DashProjection(health, portfolio) ==
    LET r == DashAnnualReturn(portfolio)
        c == DashInvestmentCapital(health)
    IN IF ~r.threw /\ ~r.nan /\ c > 0
       THEN [rendered |-> TRUE,
             data |-> ProjectionLineChart(DecOfInt(c), r.pct)]
       ELSE NotRendered

----------------------------------------------------------------------------
(* Input domains *)

NowStart == [y |-> 2024, m |-> 3]

\* a mid-month and a first-of-month date of the starting month, and the
\* same month of another year
Dates ==
    {[y |-> 2024, m |-> 3, d |-> 15], [y |-> 2024, m |-> 3, d |-> 1],
     [y |-> 2023, m |-> 3, d |-> 15]}

TxKinds ==
    {[type |-> "Ingreso", category |-> "Salario",   amount |-> 300],
     [type |-> "Egreso",  category |-> "Alimentos", amount |-> 100],
     [type |-> "Egreso",  category |-> "Vivienda",  amount |-> 400]}

MakeTx(id, kind, date) ==
    [id |-> id, type |-> kind.type, amount |-> kind.amount,
     category |-> kind.category, date |-> date, deleted |-> FALSE]

TxDomain == {MakeTx(0, k, d) : k \in TxKinds, d \in Dates}

EmptyObject == <<>>

\* null, an object without fields, a partial object and a full profile
HealthDomain ==
    {Absent, EmptyObject,
     [investmentCapital |-> 2500, totalDebt |-> 0],
     [investmentCapital |-> 10000, totalDebt |-> 1200, emergencyFund |-> 600]}

PortfolioDomain ==
    {Absent, EmptyObject} \cup {[riskProfile |-> p] : p \in DOMAIN RISK_PROFILES}

\* a history of one transaction per month over BarMonths + 1 consecutive
\* months of one year, latest first (the order of the query) and earliest
\* first
HistoryDesc ==
    [i \in 1..(BarMonths + 1) |->
        MakeTx(0, IF i % 2 = 0
                  THEN [type |-> "Ingreso", category |-> "Salario", amount |-> 300]
                  ELSE [type |-> "Egreso", category |-> "Alimentos", amount |-> 100],
               [y |-> 2024, m |-> BarMonths + 4 - i, d |-> 15])]

HistoryAsc == [i \in 1..Len(HistoryDesc) |-> HistoryDesc[Len(HistoryDesc) + 1 - i]]

LongHistories == {HistoryDesc, HistoryAsc}

----------------------------------------------------------------------------
(* The clock *)

\* the months the clock shows during a run: the starting month and the next
ClockMonths == {NowStart, [y |-> 2024, m |-> 4]}

\* new Date(): the clock never runs backwards; what it can show after it
\* showed prev
ClockReadings(prev) ==
    {ym \in ClockMonths : ym.y > prev.y \/ (ym.y = prev.y /\ ym.m >= prev.m)}

----------------------------------------------------------------------------
(* Authentication state *)

\* null as a user id
NoUser == "null"

Users == {"u1", "u2"}

NoPending == [T |-> FALSE, H |-> FALSE, P |-> FALSE]

AllPending == [T |-> TRUE, H |-> TRUE, P |-> TRUE]

\* a backend without documents
EmptyCloud ==
    [u \in Users |-> [transactions |-> <<>>, health |-> Absent,
                      portfolio |-> Absent]]

\* the App of the user u1 after sign-in, with its listeners attached and
\* up to date
SignedIn ==
    /\ userId = "u1"
    /\ isAuthReady = TRUE
    /\ loading = FALSE
    /\ effectDeps = <<TRUE, "u1">>
    /\ listeners = "u1"
    /\ pending = NoPending
    /\ cloud = EmptyCloud

\* what App returns: the loading screen, the auth-error screen, or the
\* main content with the dashboard, transactions and portfolio panels
Screen ==
    IF loading THEN "loading"
    ELSE IF ~isAuthReady \/ userId = NoUser THEN "authError"
    ELSE "main"

\* the screens before the main content: loading, and the auth error
MainRendered == ~loading /\ isAuthReady /\ userId # NoUser

\* the HealthPanel outside editing mode, showing the profile it was given
HealthPanelIdle ==
    /\ isEditing = FALSE
    /\ localHealthData = healthData
    /\ healthEffectPending = FALSE

\* { ...prev, ...data }
Spread(prev, data) ==
    [f \in DOMAIN prev \cup DOMAIN data |->
        IF f \in DOMAIN data THEN data[f] ELSE prev[f]]

----------------------------------------------------------------------------
(* AddTransactionModal *)

\* the date the form mounts with: today
DefaultDate == [y |-> 2024, m |-> 3, d |-> 15]

\* the value '' of the date input
NoDate == [y |-> 0, m |-> 0, d |-> 0]

\* the state of a modal that is not mounted is the state it mounts with:
\* useState('Egreso'), useState(''), useState(CATEGORIES.Egreso[0]),
\* useState(new Date().toISOString().substring(0, 10))
FormMounted ==
    /\ formType = "Egreso"
    /\ formAmount = <<>>
    /\ formCategory = CATEGORIES.Egreso[1]
    /\ formDate = DefaultDate

FormClosed == showTransactionModal = FALSE /\ FormMounted /\ consoleError = FALSE

\* value of an <input type="number"> after the text was typed: the text
\* when it is a number (here: an optional sign and digits), else ''
NumberInputValue(text) ==
    LET body == IF text # <<>> /\ Head(text) = "-" THEN Tail(text) ELSE text IN
    IF body # <<>> /\ \A i \in DOMAIN body : IsDigit(body[i])
    THEN text ELSE <<>>

\* Mutant of AmountInputValid: the input has no min attribute
AmountInputRequiredOnly(value) == value # <<>>

\* constraint validation of the amount input before the submit event:
\* required, and min="0.01" (a whole number meets step="0.01")
AmountInputValid(value) ==
    /\ value # <<>>
    /\ ~ParseFloat(value).nan
    /\ ParseFloat(value).val * 100 >= 1

\* Mutant of CategoryOnTypeChange: the category is left as it was
CategoryKept(newType, oldCategory) == oldCategory

\* setCategory(CATEGORIES[e.target.value][0]) in the onChange of type
CategoryOnTypeChange(newType, oldCategory) == CATEGORIES[newType][1]

\* constraint validation of the form before the submit event: the amount
\* input, and the attribute required of the category select and of the
\* date input
FormValid ==
    /\ AmountInputValid(formAmount)
    /\ formCategory # ""
    /\ formDate # NoDate

\* texts typed into the amount input: nothing, not a number, zero, a
\* negative and a positive amount
AmountTexts ==
    {<<>>, <<"a", "b", "c">>, <<"0">>, <<"-", "5">>, <<"1", "0", "0">>}

----------------------------------------------------------------------------
(* DashboardPanel on arbitrary inputs *)

InitFn ==
    /\ tzWest \in BOOLEAN
    /\ now = NowStart
    /\ transactions \in SeqsUpTo(TxDomain, MaxTx) \cup LongHistories
    /\ healthData \in HealthDomain
    /\ portfolioData \in PortfolioDomain
    /\ metrics = NotRendered
    /\ barData = NotRendered
    /\ store = <<>>
    /\ synced = TRUE
    /\ deletedOk = {}
    /\ pieData = NotRendered
    /\ capital = DecOfInt(0)
    /\ annualReturn = 0
    /\ projData = NotRendered
    /\ FormClosed
    /\ HealthPanelIdle
    /\ SignedIn

\* DashboardPanel is mounted: calculateMetrics runs and the charts are built
Render ==
    /\ barData' = [rendered |-> TRUE,
                   data |-> IncomeExpenseBarChart(transactions, tzWest)]
    /\ pieData' = [rendered |-> TRUE, data |-> TransactionPieChart(transactions)]
    /\ capital' = DecOfInt(DashInvestmentCapital(healthData))
    /\ annualReturn' = DashAnnualReturn(portfolioData).pct
    /\ projData' = DashProjection(healthData, portfolioData)
    /\ \E t \in ClockReadings(now) :
        /\ now' = t
        /\ metrics' = calculateMetrics(transactions, healthData, portfolioData,
                                       t, tzWest)
    /\ UNCHANGED <<tzWest, transactions, healthData, portfolioData,
                   store, synced, deletedOk, formVars, authVars,
                   healthVars>>

NextFn == Render

SpecFn == InitFn /\ [][NextFn]_vars

----------------------------------------------------------------------------
(* ProjectionLineChart on arbitrary props *)

\* capital in tenths: negative, zero, below and at one half, whole numbers
\* and numbers with a fraction
ProjCapitals ==
    {DecOfTenths(n) : n \in {-10000, -15, -5, 0, 4, 5, 10000, 10005, 12344,
                             25000, 100000}}

\* whole percentages: none, the three risk profiles, 10%, and rates that
\* shrink the capital or turn its sign
ProjRates == {0, 5, 8, 10, 12, -50, -100, -150}

InitProj ==
    /\ tzWest = FALSE
    /\ now = NowStart
    /\ transactions = <<>>
    /\ healthData = Absent
    /\ portfolioData = Absent
    /\ metrics = NotRendered
    /\ barData = NotRendered
    /\ store = <<>>
    /\ synced = TRUE
    /\ deletedOk = {}
    /\ pieData = NotRendered
    /\ capital \in ProjCapitals
    /\ annualReturn \in ProjRates
    /\ projData = NotRendered
    /\ FormClosed
    /\ HealthPanelIdle
    /\ SignedIn

\* ProjectionLineChart is rendered with the props
Project ==
    /\ projData' = [rendered |-> TRUE,
                    data |-> ProjectionLineChart(capital, annualReturn)]
    /\ UNCHANGED <<dashVars, capital, annualReturn, formVars, authVars,
                   healthVars>>

NextProj == Project

SpecProj == InitProj /\ [][NextProj]_vars

----------------------------------------------------------------------------
(* The App component with a signed-in user: transactions flow *)

Init ==
    /\ tzWest \in BOOLEAN
    /\ now = NowStart
    /\ transactions = <<>>
    /\ healthData = [investmentCapital |-> 0, totalDebt |-> 0,
                     emergencyFund |-> 0, userId |-> "u1"]
    /\ portfolioData = [riskProfile |-> "Moderado"]
    /\ metrics = NotRendered
    /\ barData = NotRendered
    /\ store = <<>>
    /\ synced = FALSE
    /\ deletedOk = {}
    /\ pieData = NotRendered
    /\ capital = DecOfInt(0)
    /\ annualReturn = 0
    /\ projData = NotRendered
    /\ FormClosed
    /\ HealthPanelIdle
    /\ SignedIn

\* dates entered in the form: today (the default) and the first of the month
FormDates == {[y |-> 2024, m |-> 3, d |-> 15], [y |-> 2024, m |-> 3, d |-> 1]}

\* AddTransactionModal.handleSubmit: addDoc assigns the next document id;
\* a failed write is logged and changes nothing
HandleSubmit ==
    \E kind \in TxKinds, date \in FormDates, ok \in BOOLEAN :
        /\ Len(store) < MaxDocs
        /\ IF ok
           THEN /\ store' = Append(store, MakeTx(Len(store) + 1, kind, date))
                /\ synced' = FALSE
           ELSE UNCHANGED <<store, synced>>
        /\ UNCHANGED <<tzWest, now, transactions, healthData, portfolioData,
                       metrics, barData, deletedOk, pieData, projVars, formVars,
                       authVars, healthVars>>

\* TransactionsPanel.handleDelete on a listed row: after window.confirm,
\* updateDoc sets the field deleted on the document
HandleDelete ==
    \E i \in DOMAIN transactions, confirm \in BOOLEAN, ok \in BOOLEAN :
        LET id == transactions[i].id IN
        /\ IF confirm /\ ok
           THEN /\ store' = [store EXCEPT ![id].deleted = TRUE]
                /\ synced' = FALSE
                /\ deletedOk' = deletedOk \cup {id}
           ELSE UNCHANGED <<store, synced, deletedOk>>
        /\ UNCHANGED <<tzWest, now, transactions, healthData, portfolioData,
                       metrics, barData, pieData, projVars, formVars, authVars,
                   healthVars>>

\* query(..., orderBy('date', 'desc')): every document of the collection,
\* latest date first; documents of equal date in either order
QueryResults ==
    {s \in [1..Len(store) -> Range(store)] :
        /\ \A i, j \in DOMAIN s : i # j => s[i] # s[j]
        /\ \A i, j \in DOMAIN s : i < j => ~DateLess(s[i].date, s[j].date)}

\* the transactions listener: setTransactions(list), and the dashboard is
\* rendered again with the new list
SnapshotT ==
    /\ ~synced
    /\ \E list \in QueryResults, t \in ClockReadings(now) :
        /\ transactions' = list
        /\ now' = t
        /\ metrics' = calculateMetrics(list, healthData, portfolioData,
                                       t, tzWest)
        /\ barData' = [rendered |-> TRUE,
                       data |-> IncomeExpenseBarChart(list, tzWest)]
        /\ pieData' = [rendered |-> TRUE, data |-> TransactionPieChart(list)]
    /\ capital' = DecOfInt(DashInvestmentCapital(healthData))
    /\ annualReturn' = DashAnnualReturn(portfolioData).pct
    /\ projData' = DashProjection(healthData, portfolioData)
    /\ synced' = TRUE
    /\ UNCHANGED <<tzWest, healthData, portfolioData, store, deletedOk,
                   formVars, authVars,
                   healthVars>>

Next == HandleSubmit \/ HandleDelete \/ SnapshotT

Spec == Init /\ [][Next]_vars

----------------------------------------------------------------------------
(* The add-transaction modal of a signed-in user *)

InitForm ==
    /\ tzWest = FALSE
    /\ now = NowStart
    /\ transactions = <<>>
    /\ healthData = [investmentCapital |-> 0, totalDebt |-> 0,
                     emergencyFund |-> 0, userId |-> "u1"]
    /\ portfolioData = [riskProfile |-> "Moderado"]
    /\ metrics = NotRendered
    /\ barData = NotRendered
    /\ store = <<>>
    /\ synced = FALSE
    /\ deletedOk = {}
    /\ pieData = NotRendered
    /\ capital = DecOfInt(0)
    /\ annualReturn = 0
    /\ projData = NotRendered
    /\ FormClosed
    /\ HealthPanelIdle
    /\ SignedIn

\* the button Nueva Transaccion: the modal is mounted
OpenModal ==
    /\ ~showTransactionModal
    /\ showTransactionModal' = TRUE
    /\ UNCHANGED <<dashVars, projVars, authVars, healthVars, formType, formAmount,
                   formCategory, formDate, consoleError>>

\* onClose: the modal is unmounted and its state is gone
Unmounted ==
    /\ showTransactionModal' = FALSE
    /\ formType' = "Egreso"
    /\ formAmount' = <<>>
    /\ formCategory' = CATEGORIES.Egreso[1]
    /\ formDate' = DefaultDate

\* the button Cancelar
CloseModal ==
    /\ showTransactionModal
    /\ Unmounted
    /\ UNCHANGED <<dashVars, projVars, authVars, healthVars, consoleError>>

\* onChange of the type select, with one of its two options
SetType ==
    \E v \in DOMAIN CATEGORIES :
        /\ showTransactionModal
        /\ formType' = v
        /\ formCategory' = CategoryOnTypeChange(v, formCategory)
        /\ UNCHANGED <<dashVars, projVars, authVars, healthVars, showTransactionModal,
                       formAmount, formDate, consoleError>>

\* onChange of the amount input
SetAmount ==
    \E text \in AmountTexts :
        /\ showTransactionModal
        /\ formAmount' = NumberInputValue(text)
        /\ UNCHANGED <<dashVars, projVars, authVars, healthVars, showTransactionModal, formType,
                       formCategory, formDate, consoleError>>

\* onChange of the category select: its options are CATEGORIES[type]
SetCategory ==
    \E i \in DOMAIN CATEGORIES[formType] :
        /\ showTransactionModal
        /\ formCategory' = CATEGORIES[formType][i]
        /\ UNCHANGED <<dashVars, projVars, authVars, healthVars, showTransactionModal, formType,
                       formAmount, formDate, consoleError>>

\* onChange of the date input: cleared, or set to today again
SetDate ==
    \E v \in {NoDate, DefaultDate} :
        /\ showTransactionModal
        /\ formDate' = v
        /\ UNCHANGED <<dashVars, projVars, authVars, healthVars, showTransactionModal, formType,
                       formAmount, formCategory, consoleError>>

\* Mutant of WriteFailed: onClose is called after a failed write too
WriteFailedCloses ==
    /\ consoleError' = TRUE
    /\ Unmounted
    /\ UNCHANGED <<store, synced>>

\* the catch block of handleSubmit: the error is logged
WriteFailed ==
    /\ consoleError' = TRUE
    /\ UNCHANGED <<store, synced, showTransactionModal, formType, formAmount,
                   formCategory, formDate>>

\* the early return of handleSubmit
SubmitReturnsEarly ==
    userId = NoUser \/ formAmount = <<>> \/ formCategory = "" \/ formDate = NoDate

\* the button Guardar Transaccion: an invalid form gets no submit event;
\* else handleSubmit runs with the user id the App passed, and addDoc
\* succeeds or fails; description is free text
FormSubmit ==
    /\ showTransactionModal
    /\ Len(store) < MaxWrites
    /\ IF ~FormValid \/ SubmitReturnsEarly
       THEN UNCHANGED <<store, synced, formVars>>
       ELSE \E ok \in BOOLEAN :
              IF ok
              THEN /\ store' = Append(store,
                          MakeTx(Len(store) + 1,
                                 [type |-> formType, category |-> formCategory,
                                  amount |-> ParseFloat(formAmount).val],
                                 formDate))
                   /\ synced' = FALSE
                   /\ Unmounted
                   /\ UNCHANGED consoleError
              ELSE WriteFailed
    /\ UNCHANGED <<tzWest, now, transactions, healthData, portfolioData,
                   metrics, barData, deletedOk, pieData, projVars, authVars,
                   healthVars>>

NextForm ==
    \/ OpenModal
    \/ CloseModal
    \/ SetType
    \/ SetAmount
    \/ SetCategory
    \/ SetDate
    \/ FormSubmit

SpecForm == InitForm /\ [][NextForm]_vars

----------------------------------------------------------------------------
(* The App component from its mount: authentication and the listeners *)

\* the health profile that u1 saved in an earlier session
StoredProfile ==
    [investmentCapital |-> 2500, totalDebt |-> 1200, emergencyFund |-> 600,
     userId |-> "u1"]

\* the three number inputs of the health panel
HealthFields == {"investmentCapital", "totalDebt", "emergencyFund"}

\* text typed into an input of the health panel
HealthTexts == {<<"7", "0", "0", "0">>, <<>>}

\* the HealthPanel after a render of the App that called setHealthData,
\* mounted telling whether that render shows the main content: outside the main content the panel is not mounted and the next mount
\* starts from the healthData of that time; a mount initialises the state
\* and runs the effect once; a mounted panel keeps its state and has the
\* effect on healthData to run
PanelAfterSetHealthData(mounted) ==
    IF ~mounted
    THEN /\ isEditing' = FALSE
         /\ localHealthData' = healthData'
         /\ healthEffectPending' = FALSE
    ELSE IF ~MainRendered
    THEN /\ isEditing' = FALSE
         /\ localHealthData' = healthData'
         /\ healthEffectPending' = TRUE
    ELSE /\ UNCHANGED <<isEditing, localHealthData>>
         /\ healthEffectPending' = TRUE

\* the documents of the two users: one transaction each; u1 has a
\* portfolio and, when hasProfile, a health profile; u2 has neither
CloudOf(hasProfile) ==
    [u \in Users |->
        IF u = "u1"
        THEN [transactions |->
                  <<MakeTx(1, [type |-> "Ingreso", category |-> "Salario",
                               amount |-> 300], DefaultDate)>>,
              health |-> IF hasProfile THEN StoredProfile ELSE Absent,
              portfolio |-> [riskProfile |-> "Agresivo"]]
        ELSE [transactions |->
                  <<MakeTx(2, [type |-> "Egreso", category |-> "Alimentos",
                               amount |-> 100], DefaultDate)>>,
              health |-> Absent,
              portfolio |-> Absent]]

InitAuth ==
    /\ tzWest = FALSE
    /\ now = NowStart
    /\ transactions = <<>>
    /\ healthData = [investmentCapital |-> 0, totalDebt |-> 0,
                     emergencyFund |-> 0, userId |-> NoUser]
    /\ portfolioData = [riskProfile |-> "Moderado"]
    /\ metrics = NotRendered
    /\ barData = NotRendered
    /\ store = <<>>
    /\ synced = TRUE
    /\ deletedOk = {}
    /\ pieData = NotRendered
    /\ capital = DecOfInt(0)
    /\ annualReturn = 0
    /\ projData = NotRendered
    /\ FormClosed
    /\ HealthPanelIdle
    /\ userId = NoUser
    /\ isAuthReady = FALSE
    /\ loading = TRUE
    /\ effectDeps = <<FALSE, NoUser>>
    /\ listeners = NoUser
    /\ pending = NoPending
    /\ \E hasProfile \in BOOLEAN : cloud = CloudOf(hasProfile)

\* the observer of onAuthStateChanged: called once with the current user
\* (or null) and then whenever the signed-in user changes
AuthStateChanged ==
    \E user \in Users \cup {NoUser} :
        /\ ~isAuthReady \/ user # userId
        /\ userId' = user
        /\ healthData' = Spread(healthData, [userId |-> user])
        /\ isAuthReady' = TRUE
        /\ loading' = FALSE
        /\ PanelAfterSetHealthData(user # NoUser)
        /\ UNCHANGED <<tzWest, now, transactions, portfolioData, metrics,
                       barData, store, synced, deletedOk, pieData, projVars,
                       formVars, effectDeps, listeners, pending, cloud>>

\* a data effect whose early return leaves the listeners of the previous
\* run attached
DataEffectWithoutCleanup ==
    /\ effectDeps # <<isAuthReady, userId>>
    /\ effectDeps' = <<isAuthReady, userId>>
    /\ IF ~isAuthReady \/ userId = NoUser
       THEN UNCHANGED <<listeners, pending>>
       ELSE listeners' = userId /\ pending' = AllPending
    /\ UNCHANGED <<dashVars, projVars, formVars, healthVars, userId,
                   isAuthReady, loading, cloud>>

\* the data effect after a render in which isAuthReady or userId changed:
\* the cleanup of the previous run unsubscribes its three listeners, then
\* three listeners are attached for userId unless the effect returns early
DataEffect ==
    /\ effectDeps # <<isAuthReady, userId>>
    /\ effectDeps' = <<isAuthReady, userId>>
    /\ IF ~isAuthReady \/ userId = NoUser
       THEN listeners' = NoUser /\ pending' = NoPending
       ELSE listeners' = userId /\ pending' = AllPending
    /\ UNCHANGED <<dashVars, projVars, formVars, healthVars, userId,
                   isAuthReady, loading, cloud>>

\* the transactions listener: setTransactions(list)
OnSnapshotT ==
    /\ listeners # NoUser
    /\ pending.T
    /\ transactions' = cloud[listeners].transactions
    /\ pending' = [pending EXCEPT !.T = FALSE]
    /\ UNCHANGED <<tzWest, now, healthData, portfolioData, metrics, barData,
                   store, synced, deletedOk, pieData, projVars, formVars,
                   userId, isAuthReady, loading, effectDeps, listeners, cloud,
                   healthVars>>

\* the healthMetrics listener: the state changes only if the document
\* exists
OnSnapshotH ==
    /\ listeners # NoUser
    /\ pending.H
    /\ IF cloud[listeners].health # Absent
       THEN /\ healthData' = Spread(healthData, cloud[listeners].health)
            /\ PanelAfterSetHealthData(MainRendered)
       ELSE UNCHANGED <<healthData, healthVars>>
    /\ pending' = [pending EXCEPT !.H = FALSE]
    /\ UNCHANGED <<tzWest, now, transactions, portfolioData, metrics, barData,
                   store, synced, deletedOk, pieData, projVars, formVars,
                   userId, isAuthReady, loading, effectDeps, listeners, cloud>>

\* the portfolio listener: the state changes only if the document exists
OnSnapshotP ==
    /\ listeners # NoUser
    /\ pending.P
    /\ portfolioData' = IF cloud[listeners].portfolio # Absent
                        THEN cloud[listeners].portfolio
                        ELSE portfolioData
    /\ pending' = [pending EXCEPT !.P = FALSE]
    /\ UNCHANGED <<tzWest, now, transactions, healthData, metrics, barData,
                   store, synced, deletedOk, pieData, projVars, formVars,
                   userId, isAuthReady, loading, effectDeps, listeners, cloud,
                   healthVars>>

\* the effect of HealthPanel on healthData, after the render
HealthEffect ==
    /\ healthEffectPending
    /\ localHealthData' = healthData
    /\ healthEffectPending' = FALSE
    /\ UNCHANGED <<dashVars, projVars, formVars, authVars, isEditing>>

NextAuth ==
    \/ AuthStateChanged
    \/ DataEffect
    \/ OnSnapshotT
    \/ OnSnapshotH
    \/ OnSnapshotP
    \/ HealthEffect

SpecAuth == InitAuth /\ [][NextAuth]_vars

----------------------------------------------------------------------------
(* SpecHealth: the health panel of the dashboard of the signed-in user u1:
   editing, Cancelar, Guardar, the healthMetrics listener and the effect
   on healthData *)

InitHealth ==
    /\ tzWest = FALSE
    /\ now = NowStart
    /\ transactions = <<>>
    /\ healthData = [investmentCapital |-> 0, totalDebt |-> 0,
                     emergencyFund |-> 0, userId |-> "u1"]
    /\ portfolioData = [riskProfile |-> "Moderado"]
    /\ metrics = NotRendered
    /\ barData = NotRendered
    /\ store = <<>>
    /\ synced = TRUE
    /\ deletedOk = {}
    /\ pieData = NotRendered
    /\ capital = DecOfInt(0)
    /\ annualReturn = 0
    /\ projData = NotRendered
    /\ FormClosed
    /\ HealthPanelIdle
    /\ userId = "u1"
    /\ isAuthReady = TRUE
    /\ loading = FALSE
    /\ effectDeps = <<TRUE, "u1">>
    /\ listeners = "u1"
    /\ pending = [NoPending EXCEPT !.H = TRUE]
    /\ \E hasProfile \in BOOLEAN : cloud = CloudOf(hasProfile)

\* the number behind a base metric shown outside editing mode:
\* formatCurrency(localHealthData[f] || 0); x || 0 is x for a number x
DisplayedMetric(f) == localHealthData[f]

\* the HealthPanel is on screen and its effects have run: the user can
\* act on it
PanelReady == MainRendered /\ ~healthEffectPending

\* the button Editar Metricas Base
EditMetrics ==
    /\ PanelReady
    /\ ~isEditing
    /\ isEditing' = TRUE
    /\ UNCHANGED <<dashVars, projVars, formVars, authVars, localHealthData,
                   healthEffectPending>>

\* onChange of one of the three inputs: parseFloat(e.target.value) || 0
SetHealthField ==
    \E field \in HealthFields, text \in HealthTexts :
        /\ PanelReady
        /\ isEditing
        /\ localHealthData' =
              [localHealthData EXCEPT ![field] = OrZero(ParseFloat(text))]
        /\ UNCHANGED <<dashVars, projVars, formVars, authVars, isEditing,
                       healthEffectPending>>

\* the button Cancelar of the health panel: setIsEditing(false)
CancelEdit ==
    /\ PanelReady
    /\ isEditing
    /\ isEditing' = FALSE
    /\ UNCHANGED <<dashVars, projVars, formVars, authVars, localHealthData,
                   healthEffectPending>>

\* HealthPanel.handleSave, the button Guardar: localHealthData is merged
\* into the document of the prop userId, which is healthData.userId, and
\* the panel leaves editing mode; a failed write is logged and changes
\* nothing
HandleSave ==
    \E ok \in BOOLEAN :
        LET uid == healthData.userId
        IN /\ PanelReady
           /\ isEditing
           /\ uid \in Users
           /\ IF ok
              THEN /\ cloud' = [cloud EXCEPT ![uid].health =
                                   Spread(IF @ = Absent THEN EmptyObject ELSE @,
                                          localHealthData)]
                   /\ pending' = IF listeners = uid
                                 THEN [pending EXCEPT !.H = TRUE]
                                 ELSE pending
                   /\ isEditing' = FALSE
              ELSE UNCHANGED <<cloud, pending, isEditing>>
           /\ UNCHANGED <<dashVars, projVars, formVars, userId, isAuthReady,
                          loading, effectDeps, listeners, localHealthData,
                          healthEffectPending>>

NextHealth ==
    \/ OnSnapshotH
    \/ HealthEffect
    \/ EditMetrics
    \/ SetHealthField
    \/ CancelEdit
    \/ HandleSave

SpecHealth == InitHealth /\ [][NextHealth]_vars

----------------------------------------------------------------------------
(* Vocabulary of the properties *)

\* the calendar (year, month) of a transaction's date
CalYM(t) == <<t.date.y, t.date.m>>

YMLess(a, b) == a[1] < b[1] \/ (a[1] = b[1] /\ a[2] < b[2])

\* sum of the amounts of the transactions of a type dated in a month
SumIn(txs, type, ym) ==
    SumSeq([i \in DOMAIN txs |->
              IF txs[i].type = type /\ CalYM(txs[i]) = ym
              THEN txs[i].amount ELSE 0])

\* sum of the amounts of all transactions of a type
SumAll(txs, type) ==
    SumSeq([i \in DOMAIN txs |->
              IF txs[i].type = type THEN txs[i].amount ELSE 0])

\* the (year, month) a bar is labelled with
BucketYM(b) ==
    LET parts == Split(b.name, " ") IN
    <<ParseNumber(parts[2]).val, CHOOSE m \in 1..12 : MonthShort[m] = parts[1]>>

\* x is num/den rounded to one decimal: within half a tenth of it
IsRounded1(tenths, num, den) ==
    LET diff == num * 10 - tenths * den IN
    2 * (IF diff < 0 THEN -diff ELSE diff) <= den

InputsOf == <<transactions, healthData, portfolioData>>

----------------------------------------------------------------------------
(* C1: calculateMetrics is a pure function of transactions, healthData and
   portfolioData: a call with the same three inputs as the call before it,
   at whatever later time, returns the same result. *)
C1_PureFunction ==
    [][(metrics.rendered /\ metrics'.rendered /\ InputsOf' = InputsOf)
          => metrics' = metrics]_vars

(* C2: once the deletion of a transaction was confirmed and acknowledged by
   the backend and the listener has caught up, the transaction is absent
   from the list the App holds and counts in no metric and in no chart. *)
C2_DeletedIsRemoved ==
    (synced /\ deletedOk # {}) =>
        LET Live(t) == t.id \notin deletedOk
            live == SelectSeq(transactions, Live)
        IN /\ \A i \in DOMAIN transactions : transactions[i].id \notin deletedOk
           /\ metrics = calculateMetrics(live, healthData, portfolioData,
                                         now, tzWest)
           /\ barData.data = IncomeExpenseBarChart(live, tzWest)

(* C3: the bars of IncomeExpenseBarChart are in chronological order, by
   year and within a year by month, whatever the order of the input. *)
C3_BarsChronological ==
    barData.rendered =>
        \A i, j \in DOMAIN barData.data :
            i < j => ~YMLess(BucketYM(barData.data[j]), BucketYM(barData.data[i]))

(* C4: IncomeExpenseBarChart yields at most 6 bars; when the history spans
   more than 6 (year, month) pairs they are the 6 latest; each bar carries
   the sums of the Ingreso and Egreso amounts dated in its month. *)
C4_LatestSixWithSums ==
    barData.rendered =>
        LET data == barData.data
            months == {CalYM(transactions[i]) : i \in DOMAIN transactions}
            latest == {ym \in months :
                         Cardinality({z \in months : YMLess(ym, z)}) < BarMonths}
        IN /\ Len(data) <= BarMonths
           /\ Cardinality(months) > BarMonths =>
                 {BucketYM(data[i]) : i \in DOMAIN data} = latest
           /\ \A i \in DOMAIN data :
                 /\ data[i].Ingreso = SumIn(transactions, "Ingreso", BucketYM(data[i]))
                 /\ data[i].Egreso = SumIn(transactions, "Egreso", BucketYM(data[i]))

(* C5: totalIncome and totalExpense are the sums over exactly the
   transactions dated in the month and year of the current date, by type,
   and netMonthlyFlow is their difference. *)
C5_CurrentMonthTotals ==
    (metrics.rendered /\ ~metrics.threw) =>
        LET ym == <<now.y, now.m>> IN
        /\ metrics.totalIncome = SumIn(transactions, "Ingreso", ym)
        /\ metrics.totalExpense = SumIn(transactions, "Egreso", ym)
        /\ metrics.netMonthlyFlow = metrics.totalIncome - metrics.totalExpense

(* C6 as stated: savingsRatio is never negative; it is 0 when totalIncome
   is 0 or netMonthlyFlow is negative, and otherwise exactly
   (netMonthlyFlow / totalIncome) * 100. *)
C6_SavingsRatioExact ==
    (metrics.rendered /\ ~metrics.threw) =>
        /\ ~metrics.savingsRatio.nan
        /\ metrics.savingsRatio.tenths >= 0
        /\ IF metrics.totalIncome = 0 \/ metrics.netMonthlyFlow < 0
           THEN metrics.savingsRatio.tenths = 0
           ELSE metrics.savingsRatio.tenths * metrics.totalIncome
                    = metrics.netMonthlyFlow * 100 * 10

(* C6 amended: savingsRatio is never negative; it is 0 when totalIncome is
   0 or netMonthlyFlow is negative, and otherwise
   (netMonthlyFlow / totalIncome) * 100 rounded to one decimal place. *)
C6_SavingsRatio ==
    (metrics.rendered /\ ~metrics.threw) =>
        /\ ~metrics.savingsRatio.nan
        /\ metrics.savingsRatio.tenths >= 0
        /\ IF metrics.totalIncome = 0 \/ metrics.netMonthlyFlow < 0
           THEN metrics.savingsRatio.tenths = 0
           ELSE IsRounded1(metrics.savingsRatio.tenths,
                           metrics.netMonthlyFlow * 100, metrics.totalIncome)

\* a month with income and a larger expense: the ratio is clamped to 0
C6_Witness ==
    /\ metrics.rendered /\ ~metrics.threw
    /\ metrics.totalIncome > 0
    /\ metrics.netMonthlyFlow < 0
    /\ metrics.savingsRatio.tenths = 0

(* C7: averageMonthlyExpense is the sum of all Egreso amounts divided by
   the number of distinct (year, month) pairs among all transactions, and
   0 for an empty list. *)
C7_AverageMonthlyExpense ==
    (metrics.rendered /\ ~metrics.threw) =>
        LET avg == metrics.averageMonthlyExpense
            months == {CalYM(transactions[i]) : i \in DOMAIN transactions}
        IN /\ avg.den # 0
           /\ IF transactions = <<>> THEN avg.num = 0
              ELSE avg.num * Cardinality(months)
                       = SumAll(transactions, "Egreso") * avg.den

\* totalDebt of the claim: present and positive
PositiveDebt ==
    /\ "absent" \notin DOMAIN healthData
    /\ "totalDebt" \in DOMAIN healthData
    /\ healthData.totalDebt > 0

(* C8 as stated: debtToIncomeRatio is exactly
   (totalDebt / (totalIncome * 12)) * 100 when totalDebt is present and
   positive and totalIncome is positive, and 0 otherwise. *)
C8_DebtToIncomeExact ==
    (metrics.rendered /\ ~metrics.threw) =>
        /\ ~metrics.debtToIncomeRatio.nan
        /\ IF PositiveDebt /\ metrics.totalIncome > 0
           THEN metrics.debtToIncomeRatio.tenths * (metrics.totalIncome * 12)
                    = healthData.totalDebt * 100 * 10
           ELSE metrics.debtToIncomeRatio.tenths = 0

(* C8 amended: debtToIncomeRatio is (totalDebt / (totalIncome * 12)) * 100
   rounded to one decimal place when totalDebt is present and positive and
   totalIncome is positive, and 0 otherwise. *)
C8_DebtToIncome ==
    (metrics.rendered /\ ~metrics.threw) =>
        /\ ~metrics.debtToIncomeRatio.nan
        /\ IF PositiveDebt /\ metrics.totalIncome > 0
           THEN IsRounded1(metrics.debtToIncomeRatio.tenths,
                           healthData.totalDebt * 100, metrics.totalIncome * 12)
           ELSE metrics.debtToIncomeRatio.tenths = 0

\* a debt of 1200 against a monthly income of 300: 33.3
C8_Witness ==
    /\ metrics.rendered /\ ~metrics.threw
    /\ PositiveDebt
    /\ metrics.totalIncome = 300
    /\ metrics.debtToIncomeRatio.tenths = 333

\* investmentCapital of the claim: 0 when health or the field is absent
ClaimedCapital ==
    IF "absent" \notin DOMAIN healthData /\ "investmentCapital" \in DOMAIN healthData
    THEN healthData.investmentCapital ELSE 0

\* rate of the claim, in percent
ClaimedRate ==
    IF HasRiskProfile(portfolioData)
    THEN CASE portfolioData.riskProfile = "Conservador" -> 5
           [] portfolioData.riskProfile = "Moderado" -> 8
           [] portfolioData.riskProfile = "Agresivo" -> 12
    ELSE 5

\* capital * (1 + rate/100)^10 with 20 decimal places, as limbs:
\*   2500 * 1.05^10  =  4072.23656694360351562500
\*   2500 * 1.08^10  =  5397.31249318196674560000
\*   2500 * 1.12^10  =  7764.62052086052290560000
\*  10000 * 1.05^10  = 16288.94626777441406250000
\*  10000 * 1.08^10  = 21589.24997272786698240000
\*  10000 * 1.12^10  = 31058.48208344209162240000
ClaimedFutureValue(cap, rate) ==
    CASE cap = 0 -> <<>>
      [] cap = 2500 /\ rate = 5 -> <<2500, 5156, 3603, 6694, 2365, 4072>>
      [] cap = 2500 /\ rate = 8 -> <<0, 7456, 1966, 9318, 3124, 5397>>
      [] cap = 2500 /\ rate = 12 -> <<0, 9056, 522, 2086, 6205, 7764>>
      [] cap = 10000 /\ rate = 5 -> <<0, 625, 4414, 6777, 9462, 6288, 1>>
      [] cap = 10000 /\ rate = 8 -> <<0, 9824, 7866, 7272, 2499, 1589, 2>>
      [] cap = 10000 /\ rate = 12 -> <<0, 6224, 2091, 8344, 4820, 1058, 3>>

(* C9: futureValue is investmentCapital * (1 + rate)^10 with rate the
   lower bound of the risk profile's range (5%, 8%, 12%), 5% without a
   risk profile, and investmentCapital 0 when health is absent. *)
C9_FutureValue ==
    (metrics.rendered /\ ~metrics.threw) =>
        metrics.futureValue =
            [nan |-> FALSE,
             mant |-> ClaimedFutureValue(ClaimedCapital, ClaimedRate),
             frac |-> 20]

\* 10000 at the Moderado profile grows to 21589.24...
C9_Witness ==
    /\ metrics.rendered /\ ~metrics.threw
    /\ ClaimedCapital = 10000
    /\ HasRiskProfile(portfolioData) /\ portfolioData.riskProfile = "Moderado"
    /\ SubSeq(metrics.futureValue.mant, 6, 7) = <<1589, 2>>

(* C10: for an empty transaction list and any health and portfolio,
   absent or with missing fields, calculateMetrics raises no error and
   totalIncome, totalExpense, netMonthlyFlow, savingsRatio,
   debtToIncomeRatio, averageMonthlyExpense and emergencyFundMonths are
   all 0. *)
C10_EmptyListAllZero ==
    (metrics.rendered /\ transactions = <<>>) =>
        /\ ~metrics.threw
        /\ metrics.totalIncome = 0
        /\ metrics.totalExpense = 0
        /\ metrics.netMonthlyFlow = 0
        /\ metrics.savingsRatio = [nan |-> FALSE, tenths |-> 0]
        /\ metrics.debtToIncomeRatio = [nan |-> FALSE, tenths |-> 0]
        /\ metrics.averageMonthlyExpense.num = 0
        /\ metrics.averageMonthlyExpense.den # 0
        /\ metrics.emergencyFundMonths = [nan |-> FALSE, tenths |-> 0]

\* the empty list with health and portfolio both absent
C10_Witness ==
    /\ metrics.rendered
    /\ transactions = <<>>
    /\ healthData = Absent
    /\ portfolioData = Absent

\* emergencyFund of the claim: 0 when health or the field is absent
ClaimedFund ==
    IF "absent" \notin DOMAIN healthData /\ "emergencyFund" \in DOMAIN healthData
    THEN healthData.emergencyFund ELSE 0

(* C11 as stated: emergencyFundMonths is exactly
   emergencyFund / averageMonthlyExpense when averageMonthlyExpense > 0
   (emergencyFund 0 when absent), and 0 when averageMonthlyExpense is 0. *)
C11_EmergencyFundExact ==
    (metrics.rendered /\ ~metrics.threw) =>
        LET avg == metrics.averageMonthlyExpense IN
        /\ ~metrics.emergencyFundMonths.nan
        /\ IF avg.num > 0
           THEN metrics.emergencyFundMonths.tenths * avg.num
                    = ClaimedFund * avg.den * 10
           ELSE metrics.emergencyFundMonths.tenths = 0

(* C11 amended: emergencyFundMonths is
   emergencyFund / averageMonthlyExpense rounded to one decimal place when
   averageMonthlyExpense > 0 (emergencyFund 0 when absent), and 0 when
   averageMonthlyExpense is 0, as for a history of Ingreso only. *)
C11_EmergencyFund ==
    (metrics.rendered /\ ~metrics.threw) =>
        LET avg == metrics.averageMonthlyExpense IN
        /\ ~metrics.emergencyFundMonths.nan
        /\ IF avg.num > 0
           THEN IsRounded1(metrics.emergencyFundMonths.tenths,
                           ClaimedFund * avg.den, avg.num)
           ELSE metrics.emergencyFundMonths.tenths = 0

\* a fund of 600 against 200 spent over two months: 6.0 months
C11_Witness ==
    /\ metrics.rendered /\ ~metrics.threw
    /\ ClaimedFund = 600
    /\ metrics.averageMonthlyExpense = [num |-> 200, den |-> 2]
    /\ metrics.emergencyFundMonths.tenths = 60

----------------------------------------------------------------------------
(* Vocabulary of the projection properties: exact comparison of decimals *)

Abs(n) == IF n < 0 THEN -n ELSE n

\* -1, 0 or 1 as a < b, a = b or a > b, for limb sequences without a
\* leading zero limb
BigCmp(a, b) ==
    IF Len(a) # Len(b) THEN (IF Len(a) < Len(b) THEN -1 ELSE 1)
    ELSE IF a = b THEN 0
    ELSE LET i == CHOOSE k \in DOMAIN a :
                      /\ a[k] # b[k]
                      /\ \A l \in DOMAIN a : l > k => a[l] = b[l]
         IN IF a[i] < b[i] THEN -1 ELSE 1

\* the same for signed numbers [neg, mag]
SignedCmp(a, b) ==
    LET aNeg == a.neg /\ a.mag # <<>>
        bNeg == b.neg /\ b.mag # <<>>
    IN IF aNeg # bNeg THEN (IF aNeg THEN -1 ELSE 1)
       ELSE IF aNeg THEN BigCmp(b.mag, a.mag)
       ELSE BigCmp(a.mag, b.mag)

\* the integer n scaled by 10^frac
ScaledInt(n, frac) ==
    [neg |-> n < 0, mag |-> BigMulSmall(BigPow(10, frac), Abs(n))]

\* the integer v is the decimal x exactly
IsExactly(v, x) ==
    SignedCmp(ScaledInt(v, x.frac), [neg |-> x.neg, mag |-> x.mant]) = 0

\* the integer v is x rounded to the nearest integer, the larger one on a
\* tie: v - 1/2 <= x < v + 1/2
IsRoundOf(v, x) ==
    LET twice == [neg |-> x.neg, mag |-> BigMulSmall(x.mant, 2)] IN
    /\ SignedCmp(ScaledInt(2 * v - 1, x.frac), twice) <= 0
    /\ SignedCmp(twice, ScaledInt(2 * v + 1, x.frac)) < 0

\* c * (1 + pct/100)^i, the power taken first
Compounded(c, pct, i) ==
    LET f == 100 + pct IN
    [neg  |-> (c.neg /\ (f > 0 \/ i % 2 = 0)) \/ (~c.neg /\ f < 0 /\ i % 2 = 1),
     mant |-> BigMulSmall(BigPow(Abs(f), i), BigToInt(c.mant)),
     frac |-> c.frac + 2 * i]

\* the values of the series, in order
ProjValues == [j \in DOMAIN projData.data |-> projData.data[j].value]

(* C12 as stated: point 0 of the projection series is the initial capital
   c itself, also when c is not an integer. *)
C12_PointZeroIsCapital ==
    projData.rendered => IsExactly(ProjValues[1], capital)

(* C12 amended: point 0 of the projection series is the initial capital
   rounded to the nearest integer; it is c itself when c is an integer. *)
C12_PointZeroIsRounded ==
    projData.rendered =>
        /\ IsRoundOf(ProjValues[1], capital)
        /\ \A n \in {-1000, 0, 1000, 2500, 10000} :
              capital = DecOfTenths(10 * n) => ProjValues[1] = n

\* the capital 1000.5 is drawn as 1001
C12_Witness ==
    /\ projData.rendered
    /\ capital = DecOfTenths(10005)
    /\ ProjValues[1] = 1001

(* C13: every point i of the projection series is c * (1 + r/100)^i
   rounded to the nearest integer, the growth being computed on the
   unrounded capital; 1000 at 10% gives 1000, 1100, 1210, 1331, ..., 2594. *)
C13_RoundingNotFedBack ==
    projData.rendered =>
        /\ \A i \in 0..years :
              /\ i + 1 \in DOMAIN ProjValues
              /\ IsRoundOf(ProjValues[i + 1], Compounded(capital, annualReturn, i))
        /\ (capital = DecOfTenths(10000) /\ annualReturn = 10) =>
              ProjValues = <<1000, 1100, 1210, 1331, 1464, 1611, 1772, 1949,
                             2144, 2358, 2594>>

\* 1000 at 10%: year 5 is 1611, where compounding the rounded 1464 would
\* give 1610
C13_Witness ==
    /\ projData.rendered
    /\ capital = DecOfTenths(10000)
    /\ annualReturn = 10
    /\ ProjValues[6] = 1611

(* C14: the projection series has exactly 11 points, labelled with the
   years 0 to 10, for every capital (zero and negative too) and every
   rate; at rate 0 all 11 points are the capital rounded. *)
C14_ElevenPoints ==
    projData.rendered =>
        /\ Len(projData.data) = 11
        /\ \A j \in DOMAIN projData.data :
              projData.data[j].year = <<"A", "ñ", "o", " ">> \o IntToStr(j - 1)
        /\ annualReturn = 0 =>
              \A j \in DOMAIN ProjValues : IsRoundOf(ProjValues[j], capital)

\* a negative capital at rate 0: eleven times -1000
C14_Witness ==
    /\ projData.rendered
    /\ capital = DecOfTenths(-10000)
    /\ annualReturn = 0
    /\ ProjValues = [j \in 1..11 |-> -1000]

----------------------------------------------------------------------------
(* Vocabulary of the category aggregation *)

\* the categories that occur among the Egreso transactions
ExpenseCategories ==
    {transactions[i].category :
        i \in {k \in DOMAIN transactions : transactions[k].type = "Egreso"}}

\* sum of the amounts of the Egreso transactions of a category
ExpenseOf(cat) ==
    SumSeq([i \in DOMAIN transactions |->
              IF transactions[i].type = "Egreso" /\ transactions[i].category = cat
              THEN transactions[i].amount ELSE 0])

(* C15: the values of the entries of TransactionPieChart add up to the sum
   of the amounts of all Egreso transactions; Ingreso transactions count
   in no entry; there is exactly one entry for each category that occurs
   among the Egreso transactions. *)
C15_PieConservesTotal ==
    pieData.rendered =>
        LET data == pieData.data IN
        /\ SumSeq([i \in DOMAIN data |-> data[i].value])
              = SumAll(transactions, "Egreso")
        /\ {data[i].name : i \in DOMAIN data} = ExpenseCategories
        /\ Len(data) = Cardinality(ExpenseCategories)
        /\ \A i \in DOMAIN data : data[i].value = ExpenseOf(data[i].name)

\* an Ingreso and an Egreso in the list: one entry, for the Egreso
C15_Witness ==
    /\ pieData.rendered
    /\ \E i \in DOMAIN transactions : transactions[i].type = "Ingreso"
    /\ \E i \in DOMAIN transactions : transactions[i].type = "Egreso"
    /\ Len(pieData.data) = 1
    /\ pieData.data[1].value > 0

(* C16: the entries of TransactionPieChart are in descending order of
   their totals: each entry's total is at least the next entry's. *)
C16_PieDescending ==
    pieData.rendered =>
        \A i \in DOMAIN pieData.data :
            i + 1 \in DOMAIN pieData.data =>
                pieData.data[i].value >= pieData.data[i + 1].value

\* the smaller category comes first in the list and last in the chart
C16_Witness ==
    /\ pieData.rendered
    /\ Len(transactions) = 2
    /\ transactions[1].category = "Alimentos"
    /\ pieData.data = <<[name |-> "Vivienda", value |-> 400],
                        [name |-> "Alimentos", value |-> 100]>>

(* C18: every transaction the add-transaction form has persisted has an
   amount that is a number and is strictly positive. *)
C18_PositiveAmount ==
    \A i \in DOMAIN store : store[i].amount > 0

\* an amount of 100 was persisted, and -5 is typed into the form now
C18_Witness ==
    /\ Len(store) = 1
    /\ store[1].amount = 100
    /\ showTransactionModal
    /\ formAmount = <<"-", "5">>

(* C19: in every state of the add-transaction form the selected category
   is one of the categories of the selected type, and so is the category
   of every persisted transaction for its type. *)
C19_CategoryOfType ==
    /\ showTransactionModal => formCategory \in Range(CATEGORIES[formType])
    /\ \A i \in DOMAIN store :
          store[i].category \in Range(CATEGORIES[store[i].type])

\* after a change of type and a selection: an Ingreso of category
\* Freelance was persisted, and Egreso is selected again
C19_Witness ==
    /\ \E i \in DOMAIN store :
          store[i].type = "Ingreso" /\ store[i].category = "Freelance"
    /\ showTransactionModal
    /\ formType = "Egreso"
    /\ formCategory = "Transporte"

(* C17: whenever the signed-in user has no stored health-profile document,
   the health profile the App holds and hands to the dashboard is the
   all-zero default, also when another user with a profile was signed in
   before. *)
C17_DefaultWithoutDocument ==
    (MainRendered /\ cloud[userId].health = Absent) =>
        /\ healthData.investmentCapital = 0
        /\ healthData.totalDebt = 0
        /\ healthData.emergencyFund = 0

(* C20: whenever the main content is rendered for a signed-in user, every
   transaction in the list the App holds is a document of that user. *)
C20_OnlyOwnTransactions ==
    MainRendered =>
        \A i \in DOMAIN transactions :
            \E j \in DOMAIN cloud[userId].transactions :
                transactions[i].id = cloud[userId].transactions[j].id

(* C24: for every health profile with investmentCapital > 0 and every
   portfolio, none included, the dashboard draws the projection chart and
   its last point (year 10) is the futureValue that calculateMetrics
   returned for the same inputs, rounded to the nearest integer. *)
C24_ProjectionMeetsFutureValue ==
    (metrics.rendered /\ ~metrics.threw /\ ClaimedCapital > 0) =>
        /\ projData.rendered
        /\ ~metrics.futureValue.nan
        /\ Len(projData.data) = years + 1
        /\ IsRoundOf(projData.data[years + 1].value,
                     [neg |-> FALSE, mant |-> metrics.futureValue.mant,
                      frac |-> metrics.futureValue.frac])

\* 10000 at the Moderado profile: futureValue 21589.24..., year 10 drawn
\* as 21589
C24_Witness ==
    /\ metrics.rendered /\ ~metrics.threw
    /\ ClaimedCapital = 10000
    /\ HasRiskProfile(portfolioData) /\ portfolioData.riskProfile = "Moderado"
    /\ projData.rendered
    /\ projData.data[11].value = 21589

\* the values entered in the form
FormValues == <<formType, formAmount, formCategory, formDate>>

(* C23: a submit of the add-transaction form closes the modal only when
   the transaction was written; when userId, amount, category or date is
   empty nothing is written and the modal stays open; when nothing was
   written (the write failed) the modal stays open with the values that
   were entered. *)
C23_ClosesOnlyAfterWrite ==
    [][FormSubmit =>
          /\ ~showTransactionModal' =>
                /\ Len(store') = Len(store) + 1
                /\ store'[Len(store')].type = formType
                /\ store'[Len(store')].category = formCategory
          /\ (userId = NoUser \/ formAmount = <<>> \/ formCategory = ""
                \/ formDate = NoDate) =>
                (store' = store /\ showTransactionModal')
          /\ store' = store =>
                (showTransactionModal' /\ FormValues' = FormValues)]_vars

\* a write has failed: the modal is open with the Ingreso of 100 that was
\* entered, and nothing is stored
C23_Witness ==
    /\ consoleError
    /\ showTransactionModal
    /\ store = <<>>
    /\ formType = "Ingreso"
    /\ formAmount = <<"1", "0", "0">>
    /\ formCategory = "Freelance"

(* C22: whenever the health panel is shown outside editing mode, with its
   effect run and no profile snapshot still to be delivered, each of the
   three base metrics it displays is the value of the health profile it
   received; so after Cancelar the unsaved edits are gone. *)
C22_DisplayedIsProfile ==
    (PanelReady /\ ~isEditing /\ ~pending.H) =>
        \A f \in HealthFields : DisplayedMetric(f) = healthData[f]

\* the uid the data effect attaches listeners for when it runs with the
\* given isAuthReady and userId, NoUser for none
ListenersFor(ready, uid) == IF ready /\ uid # NoUser THEN uid ELSE NoUser

(* C21, as stated: whenever listeners exist, auth is ready and they are
   the listeners of the current user id, so none exists while the user id
   is null; and the main content is on screen only when loading is false,
   auth is ready and the user id is not null. *)
C21_ListenersOfCurrentUser ==
    /\ listeners # NoUser => (isAuthReady /\ listeners = userId)
    /\ Screen = "main" => (~loading /\ isAuthReady /\ userId # NoUser)

(* C21, amended: the listeners are those of the last run of the data
   effect: none if that run saw auth not ready or a null user id, else the
   three of the user id it saw; so once the effect has run for the current
   isAuthReady and userId the previous user's listeners are gone and the
   listeners are the current user's, and none is left for a null user id.
   Without listeners no snapshot is delivered. The main content is on
   screen only when loading is false, auth is ready and the user id is not
   null. *)
C21_ListenersOfLastEffect ==
    /\ listeners = ListenersFor(effectDeps[1], effectDeps[2])
    /\ effectDeps = <<isAuthReady, userId>> =>
          listeners = ListenersFor(isAuthReady, userId)
    /\ listeners = NoUser => pending = NoPending
    /\ Screen = "main" => (~loading /\ isAuthReady /\ userId # NoUser)

\* u1 was signed in and its transactions were delivered; after the
\* sign-out the effect has run and no listener is left
C21_Witness ==
    /\ userId = NoUser
    /\ isAuthReady
    /\ effectDeps = <<TRUE, NoUser>>
    /\ listeners = NoUser
    /\ transactions # <<>>
    /\ transactions[1].id = 1

====
